---- MODULE Spec2Model ----
(***************************************************************************)
(* perturb_genes_counts of notebooks/step1_insilico_perturbation.ipynb,    *)
(* as a state machine: one call of the function on a caller-owned AnnData, *)
(* step by step (copy, dtype check, one loop iteration per entry of        *)
(* target_genes, return), followed by the caller writing into the object   *)
(* it got back.                                                            *)
(*                                                                         *)
(* Objects live in a heap of references so that aliasing between the       *)
(* caller's AnnData and the returned one is something a check can see.     *)
(* Python floats are modelled as exact fractions <<numerator,denominator>>;*)
(* the fold changes used have denominator 1 or 2, for which the float64    *)
(* product with a small integer count is exact, so astype(int) is the      *)
(* truncation of the exact quotient.  np.random.poisson is a choice of any *)
(* count up to MaxDraw at positive intensity and 0 at intensity 0.  The    *)
(* matrix is n_obs x n_vars with genes along the columns (X[:, gene_idx]); *)
(* the fixture has one observation and two genes, a third name is absent.  *)
(* printed, written and drawn record what the call printed, which columns  *)
(* it assigned, and the draws, intensities and source vector of the last   *)
(* assignment to each column; input0 is the matrix as it was at the call.  *)
(***************************************************************************)
EXTENDS Integers, Sequences, FiniteSets, TLC

\* ---- bounds of the model ----
MaxCount == 3
MaxTargets == 2
MaxDraw == 1

\* ---- inputs ----
obs_names == <<"CELL0">>
var_names == <<"GENE0", "GENE1">>
n_obs == Len(obs_names)
n_vars == Len(var_names)
TargetNames == {"GENE0", "GENE1", "GENE999"}
KnockTypes == {"knock-down", "knock-up", "scramble"}
FoldChanges == {<<0, 1>>, <<1, 2>>, <<1, 1>>, <<3, 2>>}
NoiseLevels == {<<0, 1>>, <<1, 10>>}
Dtypes == {"int64", "float64"}

DtypeMsg == "Count matrix must contain integer values."
KindMsg == "knock_type must be 'knock-up' or 'knock-down'"

Matrices == [1..n_obs -> [1..n_vars -> 0..MaxCount]]
TargetLists == UNION {[1..n -> TargetNames] : n \in 0..MaxTargets}

None == [X |-> <<>>, dtype |-> "none", var |-> <<>>]

VARIABLES heap, adata, perturbed_adata, target_genes, knock_type, fold_change,
          noise_level, pc, i, printed, raised, input0, written, drawn

vars == <<heap, adata, perturbed_adata, target_genes, knock_type, fold_change,
          noise_level, pc, i, printed, raised, input0, written, drawn>>

\* ---- helpers (numpy / list operations used by the function) ----
\* variant: the dtype test accepts every dtype
issubdtype_any(dt) == TRUE

issubdtype_integer(dt) == dt = "int64"

contains(names, gene) == \E k \in 1..Len(names) : names[k] = gene

index(names, gene) ==
    CHOOSE k \in 1..Len(names) :
        names[k] = gene /\ \A j \in 1..(k - 1) : names[j] # gene

column(X, idx) == [o \in 1..Len(X) |-> X[o][idx]]

\* variant: the assignment X[:, :] = ... broadcasts over every column
set_every_column(X, idx, vec) == [o \in 1..Len(X) |-> [g \in 1..Len(X[o]) |-> vec[o]]]

set_column(X, idx, vec) == [o \in 1..Len(X) |-> [X[o] EXCEPT ![idx] = vec[o]]]

\* variant: floor (toward minus infinity) in place of the integer cast
floor_int(num, den) == num \div den

astype_int(num, den) ==
    IF num >= 0 THEN num \div den ELSE -((-num) \div den)

\* variant: the two branches use each other's factor
scale_swapped(kind, v, fc) ==
    IF kind = "knock-down"
    THEN astype_int(v * (fc[2] + fc[1]), fc[2])
    ELSE astype_int(v * (fc[2] - fc[1]), fc[2])

scale(kind, v, fc) ==
    IF kind = "knock-down"
    THEN astype_int(v * (fc[2] - fc[1]), fc[2])
    ELSE astype_int(v * (fc[2] + fc[1]), fc[2])

maximum(a, b) == IF a >= b THEN a ELSE b

lam(nl, s) == <<nl[1] * maximum(s, 1), nl[2]>>

\* variant: a draw may be positive at intensity 0
poisson_any(l) == 0..MaxDraw

poisson(l) == IF l[1] = 0 THEN {0} ELSE 0..MaxDraw

\* variant: no clamp
clip_none(v) == v

clip(v) == IF v < 0 THEN 0 ELSE v

\* variant: copy() hands back the same object
copy_alias(ref) == ref

copy(ref) == ref + 1

\* ---- the call ----
Init ==
    /\ \E X \in Matrices, dt \in Dtypes :
          /\ heap = [r \in 1..2 |->
                       IF r = 1 THEN [X |-> X, dtype |-> dt, var |-> var_names]
                       ELSE None]
          /\ input0 = X
    /\ adata = 1
    /\ perturbed_adata = 0
    /\ target_genes \in TargetLists
    /\ knock_type \in KnockTypes
    /\ fold_change \in FoldChanges
    /\ noise_level \in NoiseLevels
    /\ pc = "copy"
    /\ i = 1
    /\ printed = <<>>
    /\ raised = "none"
    /\ written = <<>>
    /\ drawn = [g \in 1..n_vars |-> [noise |-> <<>>, lam |-> <<>>, from |-> <<>>]]

params == <<adata, target_genes, knock_type, fold_change, noise_level, input0>>

\* perturbed_adata = adata.copy(); X = perturbed_adata.X
Copy ==
    /\ pc = "copy"
    /\ perturbed_adata' = copy(adata)
    /\ heap' = [heap EXCEPT ![copy(adata)] = heap[adata]]
    /\ pc' = "dtype"
    /\ UNCHANGED <<params, i, printed, raised, written, drawn>>

\* if not np.issubdtype(X.dtype, np.integer): raise ValueError(...)
CheckDtype ==
    /\ pc = "dtype"
    /\ IF issubdtype_integer(heap[perturbed_adata].dtype)
       THEN pc' = "loop" /\ raised' = raised
       ELSE pc' = "raised" /\ raised' = DtypeMsg
    /\ UNCHANGED <<params, heap, perturbed_adata, i, printed, written, drawn>>

\* variant: a missing gene ends the loop (break in place of continue)
LoopSkipBreak ==
    /\ pc = "loop"
    /\ i <= Len(target_genes)
    /\ ~contains(heap[adata].var, target_genes[i])
    /\ printed' = Append(printed, target_genes[i])
    /\ i' = Len(target_genes) + 1
    /\ UNCHANGED <<params, heap, perturbed_adata, pc, raised, written, drawn>>

\* gene not in the index: print and continue
LoopSkip ==
    /\ pc = "loop"
    /\ i <= Len(target_genes)
    /\ ~contains(heap[adata].var, target_genes[i])
    /\ printed' = Append(printed, target_genes[i])
    /\ i' = i + 1
    /\ UNCHANGED <<params, heap, perturbed_adata, pc, raised, written, drawn>>

\* gene found, knock_type is neither branch: raise ValueError(...)
LoopRaise ==
    /\ pc = "loop"
    /\ i <= Len(target_genes)
    /\ contains(heap[adata].var, target_genes[i])
    /\ knock_type \notin {"knock-down", "knock-up"}
    /\ pc' = "raised"
    /\ raised' = KindMsg
    /\ UNCHANGED <<params, heap, perturbed_adata, i, printed, written, drawn>>

\* gene found, valid knock_type: scale, add noise, clip, write the column
LoopPerturb ==
    /\ pc = "loop"
    /\ i <= Len(target_genes)
    /\ contains(heap[adata].var, target_genes[i])
    /\ knock_type \in {"knock-down", "knock-up"}
    /\ LET X == heap[perturbed_adata].X
           gene_idx == index(heap[perturbed_adata].var, target_genes[i])
           original_counts == column(X, gene_idx)
           perturbed_counts ==
               [o \in 1..Len(X) |-> scale(knock_type, original_counts[o], fold_change)]
           lams == [o \in 1..Len(X) |-> lam(noise_level, perturbed_counts[o])]
       IN \E noise \in [1..Len(X) -> 0..MaxDraw] :
             /\ \A o \in 1..Len(X) : noise[o] \in poisson(lams[o])
             /\ LET result == [o \in 1..Len(X) |-> clip(perturbed_counts[o] + noise[o])]
                IN heap' = [heap EXCEPT ![perturbed_adata].X = set_column(X, gene_idx, result)]
             /\ written' = Append(written, gene_idx)
             /\ drawn' = [drawn EXCEPT ![gene_idx] =
                             [noise |-> noise, lam |-> lams, from |-> original_counts]]
    /\ i' = i + 1
    /\ UNCHANGED <<params, perturbed_adata, pc, printed, raised>>

\* perturbed_adata.X = X; return perturbed_adata
Return ==
    /\ pc = "loop"
    /\ i > Len(target_genes)
    /\ pc' = "returned"
    /\ UNCHANGED <<params, heap, perturbed_adata, i, printed, raised, written, drawn>>

\* afterwards the caller writes into the matrix it got back
MutateReturnedX ==
    /\ pc = "returned"
    /\ \E o \in 1..n_obs, g \in 1..n_vars :
          heap' = [heap EXCEPT ![perturbed_adata].X[o][g] = @ + 1]
    /\ pc' = "mutated"
    /\ UNCHANGED <<params, perturbed_adata, i, printed, raised, written, drawn>>

\* ... or renames a gene of the object it got back
MutateReturnedVar ==
    /\ pc = "returned"
    /\ \E g \in 1..n_vars :
          heap' = [heap EXCEPT ![perturbed_adata].var[g] = "RENAMED"]
    /\ pc' = "mutated"
    /\ UNCHANGED <<params, perturbed_adata, i, printed, raised, written, drawn>>

Next ==
    \/ Copy
    \/ CheckDtype
    \/ LoopSkip
    \/ LoopRaise
    \/ LoopPerturb
    \/ Return
    \/ MutateReturnedX
    \/ MutateReturnedVar

Spec == Init /\ [][Next]_vars

\* ---- vocabulary of the properties ----
Out == heap[perturbed_adata].X
Finished == pc \in {"returned", "mutated", "raised"}
ValidKind == knock_type \in {"knock-down", "knock-up"}
Resolved(name) == \E g \in 1..n_vars : var_names[g] = name
Missing(name) == \A g \in 1..n_vars : var_names[g] # name
Position(name) == CHOOSE g \in 1..n_vars : var_names[g] = name
Targeted(g) == \E k \in 1..Len(target_genes) : target_genes[k] = var_names[g]
DistinctTargets ==
    \A j, k \in 1..Len(target_genes) : j # k => target_genes[j] # target_genes[k]
Processed == SubSeq(target_genes, 1, i - 1)
Max2(a, b) == IF a < b THEN b ELSE a
\* the integer of largest magnitude not beyond num/den (den > 0): truncation toward zero
TruncTowardZero(num, den) ==
    CHOOSE t \in -(MaxCount * 4)..(MaxCount * 4) :
        IF num >= 0
        THEN t >= 0 /\ den * t <= num /\ num < den * (t + 1)
        ELSE t <= 0 /\ den * t >= num /\ num > den * (t - 1)
Scaled(v) ==
    IF knock_type = "knock-down"
    THEN TruncTowardZero(v * (fold_change[2] - fold_change[1]), fold_change[2])
    ELSE TruncTowardZero(v * (fold_change[2] + fold_change[1]), fold_change[2])

\* C1: when the call has returned, the returned matrix has the shape of the
\* input and the column of every gene whose name is not in target_genes is
\* element-wise the input's column.
C1_NonTargetInvariance ==
    pc = "returned" =>
        /\ Len(Out) = Len(input0)
        /\ \A o \in 1..Len(input0) : Len(Out[o]) = Len(input0[o])
        /\ \A g \in 1..n_vars : ~Targeted(g) =>
              \A o \in 1..n_obs : Out[o][g] = input0[o][g]

\* a call that changed its one target gene and left a non-zero bystander alone
C1_Witness ==
    /\ pc = "returned"
    /\ target_genes = <<"GENE0">>
    /\ written = <<1>>
    /\ Out[1][1] # input0[1][1]
    /\ input0[1][2] > 0
    /\ Out[1][2] = input0[1][2]

\* C2: in every state, on every path, the caller's AnnData holds the matrix
\* and the gene index it held when the call began, and the working copy is a
\* different object, so writes to it (by the call or by the caller afterwards)
\* do not reach the input.
C2_InputNeverMutated ==
    /\ heap[adata].X = input0
    /\ heap[adata].var = var_names
    /\ (pc # "copy") => (perturbed_adata # adata)

\* the call perturbed a gene, returned, and the caller then wrote into the result
C2_Witness ==
    /\ pc = "mutated"
    /\ written # <<>>
    /\ heap[perturbed_adata] # heap[adata]
    /\ heap[adata].X = input0

\* C3: with an integer matrix, a call whose knock_type is neither 'knock-down'
\* nor 'knock-up' ends by raising the knock_type error, whatever target_genes
\* is, and nothing has been written to the working copy.
C3_UnknownKindRejected ==
    (heap[adata].dtype = "int64" /\ ~ValidKind /\ Finished) =>
        /\ pc = "raised"
        /\ raised = KindMsg
        /\ written = <<>>

\* C4: when the matrix dtype is not integral the call has raised the dtype
\* error as soon as it is past the dtype test, for every knock_type and every
\* target list, with no gene looked up, nothing printed and nothing written.
C4_NonIntegralRejected ==
    (heap[adata].dtype # "int64" /\ pc \notin {"copy", "dtype"}) =>
        /\ pc = "raised"
        /\ raised = DtypeMsg
        /\ i = 1
        /\ printed = <<>>
        /\ written = <<>>
        /\ Out = input0

\* a float matrix rejected although knock_type is invalid and a target is missing
C4_Witness ==
    /\ pc = "raised"
    /\ raised = DtypeMsg
    /\ heap[adata].dtype = "float64"
    /\ knock_type = "scramble"
    /\ target_genes = <<"GENE999", "GENE0">>

C6_NonNegativity ==
    \A r \in 1..2 : \A o \in 1..Len(heap[r].X) : \A g \in 1..Len(heap[r].X[o]) :
        heap[r].X[o][g] >= 0

\* a knock-down with fold_change 1.5 whose scaled value is negative and was clamped to 0
C6_Witness ==
    /\ pc = "returned"
    /\ knock_type = "knock-down"
    /\ fold_change = <<3, 2>>
    /\ \E g \in 1..n_vars :
          /\ written = <<g>>
          /\ Scaled(input0[1][g]) + drawn[g].noise[1] < 0
          /\ Out[1][g] = 0

\* C7: with fold_change = 0 and noise_level = 0 and either valid knock_type,
\* the returned matrix equals the input matrix, target genes included.
C7_ZeroFoldChangeIdentity ==
    (pc = "returned" /\ ValidKind /\ fold_change[1] = 0 /\ noise_level[1] = 0) =>
        Out = input0

\* such a call that did write the column of a gene with a non-zero count
C7_Witness ==
    /\ pc = "returned"
    /\ ValidKind
    /\ fold_change[1] = 0
    /\ noise_level[1] = 0
    /\ written # <<>>
    /\ input0[1][written[1]] > 0

\* C8: for a list of distinct resolved target names, every entry of a target
\* gene in the returned matrix is max(0, scaled + n), where scaled is
\* original * (1 -/+ fold_change) truncated toward zero, original is the
\* input's entry (the value the scaling read), n >= 0 is the draw made at intensity
\* noise_level * max(scaled, 1); n = 0 when noise_level = 0 and the intensity
\* is > 0 when noise_level > 0.
C8_PerturbationFormula ==
    (pc = "returned" /\ ValidKind /\ DistinctTargets
        /\ \A k \in 1..Len(target_genes) : Resolved(target_genes[k])) =>
        \A k \in 1..Len(target_genes) : \A o \in 1..n_obs :
            LET g == Position(target_genes[k])
                scaled == Scaled(input0[o][g])
                n == drawn[g].noise[o]
            IN /\ n >= 0
               /\ drawn[g].from[o] = input0[o][g]
               /\ drawn[g].lam[o] = <<noise_level[1] * Max2(scaled, 1), noise_level[2]>>
               /\ (noise_level[1] = 0) => (n = 0)
               /\ (noise_level[1] > 0) => (drawn[g].lam[o][1] > 0)
               /\ Out[o][g] = Max2(0, scaled + n)

\* knock-down by 1.5 of a count of 1: -0.5 truncates to 0 (not -1), the draw of 1 survives
C8_Witness ==
    /\ pc = "returned"
    /\ knock_type = "knock-down"
    /\ fold_change = <<3, 2>>
    /\ noise_level[1] > 0
    /\ target_genes = <<"GENE1", "GENE0">>
    /\ input0[1][2] = 1
    /\ drawn[2].noise[1] = 1
    /\ Out[1][2] = 1

KnockDownHalf ==
    /\ pc = "returned"
    /\ knock_type = "knock-down"
    /\ fold_change = <<1, 2>>
    /\ noise_level = <<1, 10>>

SetResult ==
    [o \in 1..n_obs |-> [g \in 1..n_vars |->
        IF Targeted(g) THEN Max2(0, Scaled(input0[o][g])) ELSE input0[o][g]]]

\* C10: with noise_level = 0 the returned matrix depends only on the set of
\* names in target_genes: each named gene is transformed once from its input
\* column, whatever the order and however often the name is listed.
C10_TargetsAsSet ==
    (pc = "returned" /\ ValidKind /\ noise_level[1] = 0) => Out = SetResult

====
